---- MODULE Spec2Model ----
(***************************************************************************)
(* State-machine model of the tick simulation in src/poc/game.js: the      *)
(* province/army/nation store, the human requests (clickProvince,          *)
(* moveSelectedArmy, buildArmyAt), and processTick with its stages         *)
(* movement -> combat -> conquest -> income -> AI -> victory.              *)
(*                                                                         *)
(* Numbers.  Morale is a JavaScript double that only ever takes the values *)
(* 0.3 .. 1.2 in steps of 0.1; it is held here in tenths (3 .. 12).        *)
(* Effective strength size * morale is therefore held in tenths of a       *)
(* troop, and the casualty rate min(0.5, E / W * 0.3) is kept as the exact *)
(* fraction it denotes, so every comparison and floor is done on integers. *)
(***************************************************************************)
EXTENDS Integers, Sequences, FiniteSets, TLC

VARIABLES
    provinces,        \* game.js:4    owner of each province, Null or a nation id
    armies,           \* game.js:5    the army list, in list order
    treasury,         \* game.js:6-10 nations[n].treasury
    tick,             \* game.js:11
    paused,           \* game.js:12
    gameOver,         \* game.js:19
    winner,           \* game.js:18
    nextArmyId,       \* game.js:17
    selectedArmy,     \* game.js:14   province whose player armies are selected
    selectedProvince, \* game.js:15
    speed,            \* game.js:13   period of the tick timer, in ms
    interval,         \* game.js:16   handle of the timer registered last, or Null
    timers,           \* the host's active interval timers: handle -> period
    nextHandle,       \* the handle the host's setInterval returns next
    log,              \* what the last handler call reported (its console.log lines)
    ticksLeft,        \* executed ticks the run may still take
    reqLeft           \* human requests the run may still issue

vars == <<provinces, armies, treasury, tick, paused, gameOver, winner, nextArmyId,
          selectedArmy, selectedProvince, speed, interval, timers, nextHandle,
          log, ticksLeft, reqLeft>>

(* the timer registration, which only init and setSpeed touch *)
loop == <<speed, interval, timers, nextHandle>>

----------------------------------------------------------------------------
(* Bounds of the exploration *)
MaxTicks == 3
MaxRequests == 2

(* Program constants *)
NumProvinces == 49
GridW == 7
NumNations == 3
StartTreasury == 200
FirstArmyId == 100
ArmyCost == 50
ArmySize == 1000
FullMorale == 10
MinSize == 100
MoveTicks == 3
ConquestTicks == 2
IncomeRate == 2
AiCadence == 2
VictoryCount == 37
ScoreThreshold == 5
DefaultSpeed == 1000

Null == -1
Province == 0 .. (NumProvinces - 1)
Nation == 0 .. (NumNations - 1)
AiNations == <<1, 2>>
Capitals == <<0, 9, 18>>

Max(a, b) == IF a >= b THEN a ELSE b
Min(a, b) == IF a <= b THEN a ELSE b
Abs(a) == IF a >= 0 THEN a ELSE -a

NewArmy(id, owner, loc) ==
    [id |-> id, owner |-> owner, size |-> ArmySize, location |-> loc,
     moving |-> FALSE, destination |-> Null, movementProgress |-> 0,
     morale |-> FullMorale, conquestProgress |-> 0]

Quiet(op) ==
    [op |-> op, executed |-> FALSE, src |-> Null, target |-> Null,
     battles |-> {}, forces |-> {}, before |-> {}, captured |-> {}, arrived |-> {}]

Count(P, n) == Cardinality({p \in Province : P[p] = n})

----------------------------------------------------------------------------
(* getNeighbors: left, right, up, down, in that order *)
getNeighbors(p) ==
    LET x == p % GridW
        y == p \div GridW
    IN  (IF x > 0 THEN <<p - 1>> ELSE <<>>)
        \o (IF x < GridW - 1 THEN <<p + 1>> ELSE <<>>)
        \o (IF y > 0 THEN <<p - GridW>> ELSE <<>>)
        \o (IF y < GridW - 1 THEN <<p + GridW>> ELSE <<>>)

(* mutant: the filter !a.moving left out *)
getPlayerArmiesAtMarching(A, p) ==
    {i \in 1 .. Len(A) : A[i].location = p /\ A[i].owner = 0}

getPlayerArmiesAt(A, p) ==
    {i \in 1 .. Len(A) : A[i].location = p /\ A[i].owner = 0 /\ ~A[i].moving}

----------------------------------------------------------------------------
(* processMovement *)
Arriving(a) == a.moving /\ a.destination # Null /\ a.movementProgress - 1 <= 0

(* mutant: army.destination = null forgotten on arrival *)
MoveArmyKeepsDestination(a) ==
    IF a.moving /\ a.destination # Null
    THEN IF a.movementProgress - 1 <= 0
         THEN [a EXCEPT !.location = a.destination, !.moving = FALSE,
                        !.movementProgress = 0]
         ELSE [a EXCEPT !.movementProgress = @ - 1]
    ELSE a

(* mutant: the arrival test is movementProgress < 0, one tick late *)
MoveArmyLate(a) ==
    IF a.moving /\ a.destination # Null
    THEN IF a.movementProgress - 1 < 0
         THEN [a EXCEPT !.location = a.destination, !.moving = FALSE,
                        !.destination = Null, !.movementProgress = 0]
         ELSE [a EXCEPT !.movementProgress = @ - 1]
    ELSE a

(* army.movementProgress--; if (army.movementProgress <= 0) { arrive } *)
MoveArmy(a) ==
    IF a.moving /\ a.destination # Null
    THEN IF a.movementProgress - 1 <= 0
         THEN [a EXCEPT !.location = a.destination, !.moving = FALSE,
                        !.destination = Null, !.movementProgress = 0]
         ELSE [a EXCEPT !.movementProgress = @ - 1]
    ELSE a

processMovement(A) == [i \in 1 .. Len(A) |-> MoveArmy(A[i])]

Arrivals(A) ==
    {[id |-> A[i].id, owner |-> A[i].owner, from |-> A[i].location, at |-> A[i].destination] :
        i \in {j \in 1 .. Len(A) : Arriving(A[j])}}

----------------------------------------------------------------------------
(* processCombat *)
RECURSIVE SumStrength(_, _)
SumStrength(A, S) ==
    IF S = {} THEN 0
    ELSE LET i == CHOOSE j \in S : TRUE
         IN  A[i].size * A[i].morale + SumStrength(A, S \ {i})

ArmiesHere(A, p) == {i \in 1 .. Len(A) : A[i].location = p}
OwnersHere(A, p) == {A[i].owner : i \in ArmiesHere(A, p)}
ForceOf(A, p, o) == {i \in ArmiesHere(A, p) : A[i].owner = o}
FirstOf(A, p, o) == CHOOSE i \in ForceOf(A, p, o) : \A j \in ForceOf(A, p, o) : i <= j

(* mutant: among equally strong nations the one met last in the army list *)
BattleWinnerLastOnTie(A, p) ==
    CHOOSE w \in OwnersHere(A, p) :
        \A o \in OwnersHere(A, p) \ {w} :
            \/ SumStrength(A, ForceOf(A, p, w)) > SumStrength(A, ForceOf(A, p, o))
            \/ /\ SumStrength(A, ForceOf(A, p, w)) = SumStrength(A, ForceOf(A, p, o))
               /\ FirstOf(A, p, w) > FirstOf(A, p, o)

(* forces.sort((a, b) => b.totalStrength - a.totalStrength)[0]: the strongest *)
(* nation, and among equally strong ones the one met first in the army list   *)
BattleWinner(A, p) ==
    CHOOSE w \in OwnersHere(A, p) :
        \A o \in OwnersHere(A, p) \ {w} :
            \/ SumStrength(A, ForceOf(A, p, w)) > SumStrength(A, ForceOf(A, p, o))
            \/ /\ SumStrength(A, ForceOf(A, p, w)) = SumStrength(A, ForceOf(A, p, o))
               /\ FirstOf(A, p, w) < FirstOf(A, p, o)

(* Math.floor(size * (1 - 0.3)) in IEEE doubles, for the sizes 100 .. 1000 an *)
(* army can have: 1 - 0.3 evaluates to the double below 0.7, and for these    *)
(* sizes the product rounds to a double below the integer 0.7 * size, e.g.    *)
(* 700 * (1 - 0.3) = 489.99999999999994                                       *)
RoundsBelow == {170, 180, 330, 340, 350, 360, 650, 660, 670, 680, 690, 700, 710, 720, 730}

(* Math.floor(size * (1 - E / W * 0.3)): E = W gives the rate 0.3 itself *)
Kept(size, E, W) ==
    IF E = W /\ size \in RoundsBelow
    THEN (size * 7) \div 10 - 1
    ELSE (size * (10 * W - 3 * E)) \div (10 * W)

(* mutant: the cap Math.min(0.5, .) on the casualty rate left out *)
SurvivorSizeUncapped(size, E, W) ==
    Max(MinSize, Kept(size, E, W))

(* mutant: the survival floor Math.max(100, .) left out *)
SurvivorSizeNoFloor(size, E, W) ==
    IF 6 * E >= 10 * W THEN size \div 2
    ELSE Kept(size, E, W)

(* Math.max(100, Math.floor(size * (1 - Math.min(0.5, E / W * 0.3)))) *)
SurvivorSize(size, E, W) ==
    LET newSize == IF 6 * E >= 10 * W
                   THEN size \div 2
                   ELSE Kept(size, E, W)
    IN  Max(MinSize, newSize)

(* mutant: the floors Math.max(0.3, .), Math.max(0.5, .) and the ceiling *)
(* Math.min(1.2, .) left out                                            *)
MoraleAfterUnbounded(m, E, W) ==
    IF E > W THEN m - 3
    ELSE IF 3 * E > W THEN m - 1
    ELSE m + 1

(* casualtyRate > 0.3  <=>  E > W ;  casualtyRate > 0.1  <=>  3 E > W *)
MoraleAfter(m, E, W) ==
    IF E > W THEN Max(3, m - 3)
    ELSE IF 3 * E > W THEN Max(5, m - 1)
    ELSE Min(12, m + 1)

(* mutant: losers = [forces[1]], only the first losing nation is removed *)
DestroyedFirstLoser(A, a, p, w) ==
    /\ a.location = p /\ a.owner # w
    /\ \A i \in ArmiesHere(A, p) : A[i].owner \notin {w, a.owner} => FirstOf(A, p, a.owner) < i

(* mutant: a losing army that is on the march is left in the list *)
DestroyedIfStanding(A, a, p, w) == a.location = p /\ a.owner # w /\ ~a.moving

(* mutant: a losing nation's armies taken from the whole list, not from armiesHere *)
DestroyedEverywhere(A, a, p, w) == a.owner # w /\ a.owner \in OwnersHere(A, p)

(* losers.forEach(force => force.armies.forEach(... splice ...)): the armies *)
(* at p of every nation but the winner                                       *)
Destroyed(A, a, p, w) == a.location = p /\ a.owner # w

ResolveBattle(A, p) ==
    LET w == BattleWinner(A, p)
        W == SumStrength(A, ForceOf(A, p, w))
        E == SumStrength(A, ArmiesHere(A, p) \ ForceOf(A, p, w))
        hit == [i \in 1 .. Len(A) |->
                   IF A[i].location = p /\ A[i].owner = w
                   THEN [A[i] EXCEPT !.size = SurvivorSize(A[i].size, E, W),
                                     !.morale = MoraleAfter(A[i].morale, E, W)]
                   ELSE A[i]]
    IN  SelectSeq(hit, LAMBDA a : ~Destroyed(A, a, p, w))

(* mutant: the province changes hands only if it had an owner *)
CaptureByBattleIfOwned(P, p, w) == IF P[p] = Null THEN P ELSE [P EXCEPT ![p] = w]

(* if (provinces[provinceId] !== winner.owner) provinces[provinceId] = winner.owner *)
CaptureByBattle(P, p, w) == IF P[p] # w THEN [P EXCEPT ![p] = w] ELSE P

BattleSites(A) == {p \in Province : Cardinality(OwnersHere(A, p)) > 1}

(* the battle report (console.log, line 356): each nation's effective *)
(* strength at each battle site                                       *)
Forces(A) ==
    UNION {{[at |-> p, owner |-> o, strength |-> SumStrength(A, ForceOf(A, p, o))] :
               o \in OwnersHere(A, p)} : p \in BattleSites(A)}

(* Object.entries(locations) lists the locations in ascending province order; *)
(* only those holding more than one nation do anything                       *)
RECURSIVE CombatOver(_, _, _)
CombatOver(sites, P, A) ==
    IF sites = {} THEN [provinces |-> P, armies |-> A]
    ELSE LET p == CHOOSE q \in sites : \A r \in sites : q <= r
         IN  CombatOver(sites \ {p}, CaptureByBattle(P, p, BattleWinner(A, p)),
                        ResolveBattle(A, p))

processCombat(P, A) == CombatOver(BattleSites(A), P, A)

----------------------------------------------------------------------------
(* processConquest *)
(* mutant: the army's id written instead of its owner *)
ConquerorById(a) == a.id

(* mutant: a conquered province is left without an owner *)
ConquerorNobody(a) == Null

(* the owner written into provinces[provinceId] on a completed conquest *)
Conqueror(a) == a.owner

(* mutant: the test is conquestProgress > 2 *)
ConquestDoneLate(progress) == progress > ConquestTicks

(* mutant: the province is handed over at the first tick of occupation *)
ConquestDoneAtOnce(progress) == progress >= 1

(* if (army.conquestProgress >= 2), tested after the increment *)
ConquestDone(progress) == progress >= ConquestTicks

(* mutant: the filter !a.moving left out *)
OccupantsWithMarching(A, p) == {i \in 1 .. Len(A) : A[i].location = p}

(* this.armies.filter(a => a.location === provinceId && !a.moving) *)
Occupants(A, p) == {i \in 1 .. Len(A) : A[i].location = p /\ ~A[i].moving}

(* mutant: armies that share a province keep their progress *)
ResetSharedNever(a) == a

(* armiesHere.forEach(army => { army.conquestProgress = 0; }) *)
ResetShared(a) == [a EXCEPT !.conquestProgress = 0]

ConquestAt(p, P, A) ==
    LET here == Occupants(A, p)
    IN  IF Cardinality(here) = 1
        THEN LET i == CHOOSE j \in here : TRUE
             IN  IF P[p] # A[i].owner
                 THEN IF ConquestDone(A[i].conquestProgress + 1)
                      THEN [provinces |-> [P EXCEPT ![p] = Conqueror(A[i])],
                            armies |-> [A EXCEPT ![i].conquestProgress = 0]]
                      ELSE [provinces |-> P,
                            armies |-> [A EXCEPT ![i].conquestProgress = @ + 1]]
                 ELSE [provinces |-> P, armies |-> [A EXCEPT ![i].conquestProgress = 0]]
        ELSE IF Cardinality(here) > 1
             THEN [provinces |-> P,
                   armies |-> [i \in 1 .. Len(A) |->
                                  IF i \in here THEN ResetShared(A[i]) ELSE A[i]]]
             ELSE [provinces |-> P, armies |-> A]

(* for (provinceId = 0; provinceId < 49; provinceId++): a province without a *)
(* non-moving army is skipped                                                 *)
RECURSIVE ConquestOver(_, _, _)
ConquestOver(held, P, A) ==
    IF held = {} THEN [provinces |-> P, armies |-> A]
    ELSE LET p == CHOOSE q \in held : \A r \in held : q <= r
             r == ConquestAt(p, P, A)
         IN  ConquestOver(held \ {p}, r.provinces, r.armies)

processConquest(P, A) ==
    ConquestOver({p \in Province : Occupants(A, p) # {}}, P, A)

----------------------------------------------------------------------------
(* mutant: only the player's nation is paid *)
processIncomePlayerOnly(P, T) ==
    [n \in Nation |-> IF n = 0 THEN T[n] + Count(P, n) * IncomeRate ELSE T[n]]

(* processIncome *)
processIncome(P, T) == [n \in Nation |-> T[n] + Count(P, n) * IncomeRate]

----------------------------------------------------------------------------
(* mutant: every nation is charged for the army *)
ChargeAll(T, n) == [m \in Nation |-> T[m] - ArmyCost]

(* mutant: the army is handed over without the treasury being charged *)
ChargeNothing(T, n) == T

(* nations[n].treasury -= 50, the statement that follows armies.push *)
Charge(T, n) == [T EXCEPT ![n] = @ - ArmyCost]

----------------------------------------------------------------------------
(* findBestTarget *)
GridDistance(p, q) ==
    Abs((p % GridW) - (q % GridW)) + Abs((p \div GridW) - (q \div GridW))

RECURSIVE CapitalBonus(_, _, _, _)
CapitalBonus(k, n, q, P) ==
    IF k > Len(Capitals) THEN 0
    ELSE (IF P[Capitals[k]] # n /\ P[Capitals[k]] # Null
          THEN Max(0, 10 - GridDistance(q, Capitals[k])) ELSE 0)
         + CapitalBonus(k + 1, n, q, P)

(* mutant: the defenders of the neighbour are not looked at *)
TargetScoreBlind(n, a, q, P, A) ==
    (IF P[q] # Null THEN 15 ELSE 10) + 20 + CapitalBonus(1, n, q, P)

TargetScore(n, a, q, P, A) ==
    LET defenderStrength == SumStrength(A, ArmiesHere(A, q))
        attackerStrength == a.size * a.morale
    IN  (IF P[q] # Null THEN 15 ELSE 10)
        + (IF defenderStrength = 0 THEN 20
           ELSE IF 10 * attackerStrength > 12 * defenderStrength THEN 10
           ELSE IF attackerStrength > defenderStrength THEN 5
           ELSE -10)
        + CapitalBonus(1, n, q, P)

(* mutant: a score at the threshold is taken to be good enough *)
GoodEnoughAtThreshold(score) == score >= ScoreThreshold

(* if (bestScore > 5) *)
GoodEnough(score) == score > ScoreThreshold

(* mutant: the defence pass is skipped *)
NeedsDefenceNever(n, q, P, A) == FALSE

(* Priority 1: q is ours and holds an army of another nation *)
NeedsDefence(n, q, P, A) ==
    /\ P[q] = n
    /\ \E i \in ArmiesHere(A, q) : A[i].owner # n

findBestTarget(n, a, P, A) ==
    LET nb == getNeighbors(a.location)
        defend == {k \in 1 .. Len(nb) : NeedsDefence(n, nb[k], P, A)}
        cand == {k \in 1 .. Len(nb) : P[nb[k]] # n}
    IN  IF defend # {}
        THEN nb[CHOOSE k \in defend : \A j \in defend : k <= j]
        ELSE IF cand = {} THEN Null
        ELSE LET best == CHOOSE k \in cand :
                             \A j \in cand :
                                 \/ TargetScore(n, a, nb[k], P, A) > TargetScore(n, a, nb[j], P, A)
                                 \/ /\ TargetScore(n, a, nb[k], P, A) = TargetScore(n, a, nb[j], P, A)
                                    /\ k <= j
             IN  IF GoodEnough(TargetScore(n, a, nb[best], P, A))
                 THEN nb[best] ELSE Null

(* mutant: the treasury is not looked at *)
AiAffordsAlways(gold) == TRUE

(* nation.treasury >= 50 *)
AiAffords(gold) == gold >= ArmyCost

(* aiThink: w is [provinces, armies, treasury, nextArmyId]; draw is Math.random() < 0.1 *)
aiThink(n, draw, w) ==
    LET owned == {p \in Province : w.provinces[p] = n}
        build == draw /\ AiAffords(w.treasury[n]) /\ owned # {}
        buildLocation == CHOOSE p \in owned : \A q \in owned : p <= q
        A1 == IF build THEN Append(w.armies, NewArmy(w.nextArmyId, n, buildLocation))
              ELSE w.armies
        order(a) == LET t == findBestTarget(n, a, w.provinces, A1)
                    IN  IF t # Null
                        THEN [a EXCEPT !.moving = TRUE, !.destination = t,
                                       !.movementProgress = MoveTicks]
                        ELSE a
    IN  [provinces |-> w.provinces,
         armies |-> [i \in 1 .. Len(A1) |->
                        IF A1[i].owner = n /\ ~A1[i].moving THEN order(A1[i]) ELSE A1[i]],
         treasury |-> IF build THEN Charge(w.treasury, n) ELSE w.treasury,
         nextArmyId |-> IF build THEN w.nextArmyId + 1 ELSE w.nextArmyId]

RECURSIVE AiFrom(_, _, _)
AiFrom(k, draws, w) ==
    IF k > Len(AiNations) THEN w
    ELSE AiFrom(k + 1, draws, aiThink(AiNations[k], draws[k], w))

processAI(draws, w) == AiFrom(1, draws, w)

----------------------------------------------------------------------------
(* mutant: the threshold must be exceeded, not reached *)
checkVictoryStrict(P) ==
    IF \E i \in Nation : Count(P, i) > VictoryCount
    THEN CHOOSE i \in Nation : Count(P, i) > VictoryCount
    ELSE Null

(* mutant: a simple majority of the 49 provinces is enough *)
checkVictoryMajority(P) ==
    IF \E i \in Nation : 2 * Count(P, i) > NumProvinces
    THEN CHOOSE i \in Nation : 2 * Count(P, i) > NumProvinces
    ELSE Null

(* checkVictory: the first nation holding the supermajority, or Null *)
checkVictory(P) ==
    IF \E i \in Nation : Count(P, i) >= VictoryCount
    THEN CHOOSE i \in Nation :
             /\ Count(P, i) >= VictoryCount
             /\ \A j \in Nation : Count(P, j) >= VictoryCount => i <= j
    ELSE Null

----------------------------------------------------------------------------
(* mutant: processAI runs in every tick *)
AiTurnAlways(t) == TRUE

(* if (this.tick % 2 === 0), tested on the incremented counter *)
AiTurn(t) == t % AiCadence = 0

(* mutant: combat resolved before the armies are moved *)
RunStagesCombatFirst(P, A, T, nid, t, draws) ==
    LET fought == processCombat(P, A)
        moved == processMovement(fought.armies)
        held == processConquest(fought.provinces, moved)
        paid == processIncome(held.provinces, T)
        w0 == [provinces |-> held.provinces, armies |-> held.armies,
               treasury |-> paid, nextArmyId |-> nid]
        w1 == IF AiTurn(t) THEN processAI(draws, w0) ELSE w0
    IN  [provinces |-> w1.provinces, armies |-> w1.armies, treasury |-> w1.treasury,
         nextArmyId |-> w1.nextArmyId, victor |-> checkVictory(w1.provinces),
         battles |-> BattleSites(A), forces |-> Forces(A),
         arrived |-> Arrivals(fought.armies)]

(* mutant: income paid before combat and conquest *)
RunStagesIncomeFirst(P, A, T, nid, t, draws) ==
    LET moved == processMovement(A)
        paid == processIncome(P, T)
        fought == processCombat(P, moved)
        held == processConquest(fought.provinces, fought.armies)
        w0 == [provinces |-> held.provinces, armies |-> held.armies,
               treasury |-> paid, nextArmyId |-> nid]
        w1 == IF AiTurn(t) THEN processAI(draws, w0) ELSE w0
    IN  [provinces |-> w1.provinces, armies |-> w1.armies, treasury |-> w1.treasury,
         nextArmyId |-> w1.nextArmyId, victor |-> checkVictory(w1.provinces),
         battles |-> BattleSites(moved), forces |-> Forces(moved),
         arrived |-> Arrivals(A)]

(* processTick, after its gate: the stages in the order of lines 278-298.  *)
(* t is the incremented tick counter.                                      *)
RunStages(P, A, T, nid, t, draws) ==
    LET moved == processMovement(A)
        fought == processCombat(P, moved)
        held == processConquest(fought.provinces, fought.armies)
        paid == processIncome(held.provinces, T)
        w0 == [provinces |-> held.provinces, armies |-> held.armies,
               treasury |-> paid, nextArmyId |-> nid]
        w1 == IF AiTurn(t) THEN processAI(draws, w0) ELSE w0
    IN  [provinces |-> w1.provinces, armies |-> w1.armies, treasury |-> w1.treasury,
         nextArmyId |-> w1.nextArmyId, victor |-> checkVictory(w1.provinces),
         battles |-> BattleSites(moved), forces |-> Forces(moved),
         arrived |-> Arrivals(A)]

(* mutants: one half of the gate forgotten *)
TickGateGameOverOnly == gameOver
TickGatePausedOnly == paused

(* if (this.paused || this.gameOver) return; *)
TickGate == paused \/ gameOver

(* what Math.random() < 0.1 can give *)
DrawSet == BOOLEAN

(* Math.random() is called by aiThink only, in the ticks that run processAI *)
DrawsAt(t) == IF AiTurn(t) THEN DrawSet ELSE {FALSE}

processTick ==
    /\ UNCHANGED loop
    /\ IF TickGate
       THEN /\ log' = Quiet("processTick")
            /\ UNCHANGED <<provinces, armies, treasury, tick, paused, gameOver, winner,
                           nextArmyId, selectedArmy, selectedProvince, ticksLeft, reqLeft>>
       ELSE /\ ticksLeft > 0
            /\ \E d1 \in DrawsAt(tick + 1), d2 \in DrawsAt(tick + 1) :
                 \E r \in {RunStages(provinces, armies, treasury, nextArmyId, tick + 1,
                                     <<d1, d2>>)} :
                     /\ tick' = tick + 1
                     /\ provinces' = r.provinces
                     /\ armies' = r.armies
                     /\ treasury' = r.treasury
                     /\ nextArmyId' = r.nextArmyId
                     /\ winner' = IF r.victor # Null THEN r.victor ELSE winner
                     /\ gameOver' = IF r.victor # Null THEN TRUE ELSE gameOver
                     /\ paused' = IF r.victor # Null THEN TRUE ELSE paused
                     /\ log' = [Quiet("processTick") EXCEPT
                                   !.executed = TRUE,
                                   !.battles = r.battles,
                                   !.forces = r.forces,
                                   !.before = {[at |-> p, owner |-> provinces[p]] :
                                                  p \in r.battles},
                                   !.arrived = r.arrived,
                                   !.captured = {p \in Province : r.provinces[p] # provinces[p]}]
            /\ ticksLeft' = ticksLeft - 1
            /\ UNCHANGED <<selectedArmy, selectedProvince, reqLeft>>

----------------------------------------------------------------------------
(* Human requests.  The provinces a request may name: for every start state *)
(* an army location, a neighbour of it, a non-neighbour, owned and foreign. *)
Asked == {0, 1, 8, 17, 24, 25, 35, 36}

clickProvince(p) ==
    /\ reqLeft > 0
    /\ IF getPlayerArmiesAt(armies, p) # {}
       THEN selectedArmy' = p /\ selectedProvince' = Null
       ELSE IF provinces[p] = 0
            THEN selectedProvince' = p /\ selectedArmy' = Null
            ELSE selectedArmy' = Null /\ selectedProvince' = Null
    /\ log' = Quiet("clickProvince")
    /\ reqLeft' = reqLeft - 1
    /\ UNCHANGED <<provinces, armies, treasury, tick, paused, gameOver, winner,
                   nextArmyId, ticksLeft>>
    /\ UNCHANGED loop

MoveOrder(A, src, targetId) ==
    [i \in 1 .. Len(A) |->
        IF i \in getPlayerArmiesAt(A, src)
        THEN [A[i] EXCEPT !.moving = TRUE, !.destination = targetId,
                          !.movementProgress = MoveTicks]
        ELSE A[i]]

moveSelectedArmy(targetId) ==
    /\ reqLeft > 0
    /\ IF selectedArmy = Null
       THEN UNCHANGED <<armies, selectedArmy>>
       ELSE armies' = MoveOrder(armies, selectedArmy, targetId) /\ selectedArmy' = Null
    /\ log' = [Quiet("moveSelectedArmy") EXCEPT !.src = selectedArmy, !.target = targetId]
    /\ reqLeft' = reqLeft - 1
    /\ UNCHANGED <<provinces, treasury, tick, paused, gameOver, winner, nextArmyId,
                   selectedProvince, ticksLeft>>
    /\ UNCHANGED loop

(* mutant: the treasury check left out *)
BuildAllowedAnyTreasury(T, P, provinceId) == ~(P[provinceId] # 0)

(* mutant: the ownership check left out *)
BuildAllowedAnyProvince(T, P, provinceId) == ~(T[0] < ArmyCost)

BuildAllowed(T, P, provinceId) == ~(T[0] < ArmyCost) /\ ~(P[provinceId] # 0)

buildArmyAt(provinceId) ==
    /\ reqLeft > 0
    /\ IF BuildAllowed(treasury, provinces, provinceId)
       THEN /\ armies' = Append(armies, NewArmy(nextArmyId, 0, provinceId))
            /\ nextArmyId' = nextArmyId + 1
            /\ treasury' = Charge(treasury, 0)
            /\ log' = [Quiet("buildArmyAt") EXCEPT !.executed = TRUE, !.target = provinceId]
       ELSE /\ UNCHANGED <<armies, nextArmyId, treasury>>
            /\ log' = [Quiet("buildArmyAt") EXCEPT !.target = provinceId]
    /\ reqLeft' = reqLeft - 1
    /\ UNCHANGED <<provinces, tick, paused, gameOver, winner, selectedArmy,
                   selectedProvince, ticksLeft>>
    /\ UNCHANGED loop

(* the pause / resume button of the host page *)
togglePause ==
    /\ reqLeft > 0
    /\ paused' = ~paused
    /\ log' = Quiet("togglePause")
    /\ reqLeft' = reqLeft - 1
    /\ UNCHANGED <<provinces, armies, treasury, tick, gameOver, winner, nextArmyId,
                   selectedArmy, selectedProvince, ticksLeft>>
    /\ UNCHANGED loop

----------------------------------------------------------------------------
(* Start states.  StartNew is the state init() leaves.  The others are     *)
(* positions of a game in progress, each at a tick boundary.               *)
Owners(blue, red, green) ==
    [p \in Province |-> IF p \in blue THEN 0 ELSE IF p \in red THEN 1
                        ELSE IF p \in green THEN 2 ELSE Null]

Marching(a, dest, left) ==
    [a EXCEPT !.moving = TRUE, !.destination = dest, !.movementProgress = left]

StartNew ==
    [provinces |-> Owners({0, 1, 5}, {9, 14}, {18, 19}),
     armies |-> <<NewArmy(1, 0, 0), NewArmy(2, 1, 9), NewArmy(3, 2, 19)>>,
     treasury |-> [n \in Nation |-> StartTreasury],
     tick |-> 0, nextArmyId |-> FirstArmyId]

(* tick 11: the blue army is one tick from province 8, where the red army  *)
(* has just arrived; the green army has occupied neutral 20 for one tick   *)
StartClash ==
    [provinces |-> Owners({0, 1, 5, 7}, {8, 9, 14, 15}, {18, 19, 12}),
     armies |-> <<Marching(NewArmy(1, 0, 1), 8, 1), NewArmy(2, 1, 8),
                  [NewArmy(3, 2, 20) EXCEPT !.conquestProgress = 1]>>,
     treasury |-> (0 :> 30 @@ 1 :> 272 @@ 2 :> 258),
     tick |-> 11, nextArmyId |-> 103]

(* tick 201: blue holds 35 provinces and has occupied 35 and 36 for one tick *)
StartEndgame ==
    [provinces |-> Owners(0 .. 34, {35, 36, 37, 38, 39, 40, 41}, 42 .. 48),
     armies |-> <<[NewArmy(1, 0, 35) EXCEPT !.conquestProgress = 1, !.size = 700,
                                            !.morale = 9],
                  NewArmy(2, 1, 41), NewArmy(3, 2, 48),
                  [NewArmy(131, 0, 36) EXCEPT !.conquestProgress = 1]>>,
     treasury |-> (0 :> 412 @@ 1 :> 96 @@ 2 :> 38),
     tick |-> 201, nextArmyId |-> 140]

(* tick 30: a worn blue army and a fresh one hold 24; the red and the green *)
(* army both reach 24 in the next tick; two more red armies, which shared   *)
(* blue 17 without taking it, leave it for 10 in the next tick              *)
StartSiege ==
    [provinces |-> Owners({0, 1, 5, 7, 17, 24, 31}, {9, 14, 16, 22, 23, 30},
                          {18, 19, 25, 26, 32}),
     armies |-> <<[NewArmy(1, 0, 24) EXCEPT !.size = 125, !.morale = 3],
                  Marching(NewArmy(2, 1, 23), 24, 1),
                  Marching(NewArmy(3, 2, 25), 24, 1),
                  NewArmy(117, 0, 24),
                  Marching(NewArmy(118, 1, 17), 10, 1),
                  Marching([NewArmy(119, 1, 17) EXCEPT !.size = 816, !.morale = 9], 10, 1)>>,
     treasury |-> (0 :> 56 @@ 1 :> 84 @@ 2 :> 150),
     tick |-> 30, nextArmyId |-> 120]

(* tick 44: a blue army that spent one tick on neutral 2 is one tick from  *)
(* neutral 3; a red army is one tick from neutral 10; two green armies, a  *)
(* red and a blue one all reach neutral 33 in the next tick; a red and a   *)
(* green army both reach blue 17, which holds no army, in the next tick    *)
StartRaid ==
    [provinces |-> Owners({0, 1, 7, 8, 17, 32}, {9, 14, 15, 16, 40}, {18, 19, 25, 26}),
     armies |-> <<Marching([NewArmy(1, 0, 2) EXCEPT !.conquestProgress = 1], 3, 1),
                  Marching(NewArmy(2, 1, 9), 10, 1),
                  Marching([NewArmy(3, 2, 26) EXCEPT !.size = 300, !.morale = 8], 33, 1),
                  Marching([NewArmy(121, 2, 26) EXCEPT !.size = 400, !.morale = 8], 33, 1),
                  Marching(NewArmy(122, 1, 40), 33, 1),
                  Marching([NewArmy(123, 0, 32) EXCEPT !.size = 700, !.morale = 9], 33, 1),
                  Marching(NewArmy(124, 1, 16), 17, 1),
                  Marching([NewArmy(125, 2, 18) EXCEPT !.morale = 11], 17, 1)>>,
     treasury |-> (0 :> 64 @@ 1 :> 120 @@ 2 :> 90),
     tick |-> 44, nextArmyId |-> 126]

(* tick 61: red, which also holds green's first province 18, has an army *)
(* in the far corner 48 facing blue armies on both neighbours; a green     *)
(* army on green 26 faces blue armies on 27 and 33 and has green           *)
(* provinces behind it                                                     *)
StartStandoff ==
    [provinces |-> Owners({0, 1, 7, 8, 27, 33, 34, 40, 41, 47}, {9, 10, 11, 18, 48},
                          {19, 20, 25, 26}),
     armies |-> <<NewArmy(1, 0, 47), NewArmy(2, 1, 48), NewArmy(3, 2, 26),
                  [NewArmy(130, 0, 41) EXCEPT !.morale = 11],
                  NewArmy(131, 0, 27),
                  [NewArmy(132, 0, 33) EXCEPT !.morale = 11]>>,
     treasury |-> (0 :> 40 @@ 1 :> 30 @@ 2 :> 200),
     tick |-> 61, nextArmyId |-> 133]

(* tick 73: on blue 25 a blue army of top morale stands beside a blue army *)
(* that is three ticks from green 26, and a small green army is two ticks *)
(* from 25; a red army has stood on blue 24 for one tick; a small blue     *)
(* army, three ticks from 10, is still on blue 17, which a red army        *)
(* reaches in two ticks                                                    *)
StartSkirmish ==
    [provinces |-> Owners({0, 1, 7, 8, 17, 24, 25, 31}, {9, 14, 15, 16, 23},
                          {18, 19, 26, 27}),
     armies |-> <<[NewArmy(1, 0, 25) EXCEPT !.morale = 12],
                  [NewArmy(2, 1, 24) EXCEPT !.conquestProgress = 1],
                  Marching([NewArmy(3, 2, 26) EXCEPT !.size = 200], 25, 2),
                  Marching(NewArmy(140, 0, 25), 26, 3),
                  Marching([NewArmy(141, 0, 17) EXCEPT !.size = 500], 10, 3),
                  Marching(NewArmy(142, 1, 16), 17, 2)>>,
     treasury |-> (0 :> 50 @@ 1 :> 4 @@ 2 :> 6),
     tick |-> 73, nextArmyId |-> 143]

(* tick 90: green has lost all its provinces but has gold and an army, which *)
(* is three ticks from neutral 33; red has gold and an army at home, next   *)
(* to red 15, which a blue army is leaving for 22                           *)
StartExile ==
    [provinces |-> Owners({0, 1, 7, 8, 18, 19}, {9, 14, 15, 16}, {}),
     armies |-> <<NewArmy(1, 0, 18), NewArmy(2, 1, 14),
                  Marching(NewArmy(3, 2, 26), 33, 3),
                  Marching(NewArmy(4, 0, 15), 22, 3)>>,
     treasury |-> (0 :> 10 @@ 1 :> 60 @@ 2 :> 90),
     tick |-> 90, nextArmyId |-> 150]

(* tick 52: the blue and the red army have each won a battle of equals and *)
(* are down to 700 troops at morale 0.9; the red one reaches blue 1, where  *)
(* the blue one stands, in the next tick                                    *)
StartAttrition ==
    [provinces |-> Owners({0, 1, 7}, {8, 9, 15, 16}, {18, 19}),
     armies |-> <<[NewArmy(1, 0, 1) EXCEPT !.size = 700, !.morale = 9],
                  Marching([NewArmy(2, 1, 8) EXCEPT !.size = 700, !.morale = 9], 1, 1)>>,
     treasury |-> (0 :> 12 @@ 1 :> 5 @@ 2 :> 8),
     tick |-> 52, nextArmyId |-> 108]

StartStates ==
    {StartNew, StartClash, StartEndgame, StartSiege, StartRaid, StartStandoff, StartSkirmish,
     StartExile, StartAttrition}

Init ==
    \E s \in StartStates :
        /\ provinces = s.provinces
        /\ armies = s.armies
        /\ treasury = s.treasury
        /\ tick = s.tick
        /\ nextArmyId = s.nextArmyId
        /\ paused = FALSE
        /\ gameOver = FALSE
        /\ winner = Null
        /\ selectedArmy = Null
        /\ selectedProvince = Null
        /\ speed = DefaultSpeed
        /\ interval = 1
        /\ timers = (1 :> DefaultSpeed)
        /\ nextHandle = 2
        /\ log = Quiet("init")
        /\ ticksLeft = MaxTicks
        /\ reqLeft = MaxRequests

Next ==
    \/ \E t \in DOMAIN timers : processTick
    \/ \E p \in Asked : clickProvince(p)
    \/ \E t \in Asked : moveSelectedArmy(t)
    \/ \E p \in Asked : buildArmyAt(p)
    \/ togglePause

Spec == Init /\ [][Next]_vars

----------------------------------------------------------------------------
(* The game loop timer.  The host keeps the active interval timers; a      *)
(* timer that is never cleared keeps firing.                               *)

(* the periods the speed buttons ask for: 1x, 2x, 3x *)
Speeds == {DefaultSpeed, DefaultSpeed \div 2, DefaultSpeed \div 3}

(* clearInterval is skipped when no handle was stored: the timer stays *)
ClearedNothing(T, h) == T

(* if (this.interval) clearInterval(this.interval) *)
Cleared(T, h) == IF h # Null THEN [t \in DOMAIN T \ {h} |-> T[t]] ELSE T

(* restartLoop once this.speed holds s: clear the stored timer, register a *)
(* new one with period s and store its handle                              *)
restartLoop(s) ==
    /\ timers' = Cleared(timers, interval) @@ (nextHandle :> s)
    /\ interval' = nextHandle
    /\ nextHandle' = nextHandle + 1

(* init(): the opening position, then the loop is started *)
init ==
    /\ interval = Null
    /\ provinces' = StartNew.provinces
    /\ armies' = StartNew.armies
    /\ restartLoop(speed)
    /\ log' = Quiet("init")
    /\ UNCHANGED <<treasury, tick, paused, gameOver, winner, nextArmyId, selectedArmy,
                   selectedProvince, speed, ticksLeft, reqLeft>>

(* setSpeed(newSpeed), a speed button of the page init has set up *)
setSpeed(newSpeed) ==
    /\ interval # Null
    /\ reqLeft > 0
    /\ speed' = newSpeed
    /\ restartLoop(newSpeed)
    /\ log' = Quiet("setSpeed")
    /\ reqLeft' = reqLeft - 1
    /\ UNCHANGED <<provinces, armies, treasury, tick, paused, gameOver, winner,
                   nextArmyId, selectedArmy, selectedProvince, ticksLeft>>

(* the component as declared, before init has run: no timer registered *)
InitTimer ==
    /\ provinces = [p \in Province |-> Null]
    /\ armies = <<>>
    /\ treasury = [n \in Nation |-> StartTreasury]
    /\ tick = 0
    /\ nextArmyId = FirstArmyId
    /\ paused = FALSE
    /\ gameOver = FALSE
    /\ winner = Null
    /\ selectedArmy = Null
    /\ selectedProvince = Null
    /\ speed = DefaultSpeed
    /\ interval = Null
    /\ timers = <<>>
    /\ nextHandle = 1
    /\ log = Quiet("new")
    /\ ticksLeft = MaxTicks
    /\ reqLeft = MaxRequests

NextTimer ==
    \/ init
    \/ \E s \in Speeds : setSpeed(s)
    \/ \E t \in DOMAIN timers : processTick
    \/ togglePause

SpecTimer == InitTimer /\ [][NextTimer]_vars

----------------------------------------------------------------------------
(* The end of a game: the position of StartEndgame with every request of   *)
(* the page, the speed buttons included.                                   *)
InitAt(s) ==
    /\ provinces = s.provinces
    /\ armies = s.armies
    /\ treasury = s.treasury
    /\ tick = s.tick
    /\ nextArmyId = s.nextArmyId
    /\ paused = FALSE
    /\ gameOver = FALSE
    /\ winner = Null
    /\ selectedArmy = Null
    /\ selectedProvince = Null
    /\ speed = DefaultSpeed
    /\ interval = 1
    /\ timers = (1 :> DefaultSpeed)
    /\ nextHandle = 2
    /\ log = Quiet("init")
    /\ ticksLeft = MaxTicks
    /\ reqLeft = MaxRequests

InitEndgame == InitAt(StartEndgame)

NextEndgame ==
    \/ \E t \in DOMAIN timers : processTick
    \/ \E p \in Asked : clickProvince(p)
    \/ \E t \in Asked : moveSelectedArmy(t)
    \/ \E p \in Asked : buildArmyAt(p)
    \/ togglePause
    \/ \E s \in Speeds : setSpeed(s)

SpecEndgame == InitEndgame /\ [][NextEndgame]_vars

----------------------------------------------------------------------------
(* The stages of a tick on the positions in which armies of different      *)
(* nations meet: several battle sites and several occupied provinces in    *)
(* one tick.                                                               *)
InitStages ==
    \E s \in {StartClash, StartSiege, StartRaid, StartSkirmish, StartAttrition} : InitAt(s)

SpecStages == InitStages /\ [][Next]_vars

----------------------------------------------------------------------------
(* Properties *)
TickRan == log.op = "processTick" /\ log.executed
Ids(A) == {A[i].id : i \in 1 .. Len(A)}

(* armies a nation gained in the step: their ids were not handed out before *)
Built(n) ==
    Cardinality({i \in 1 .. Len(armies') :
                    armies'[i].owner = n /\ armies'[i].id >= nextArmyId})
IncomeOf(n) == treasury'[n] - treasury[n] + 50 * Built(n)

(* C1: in every reachable state each of the 49 provinces has exactly one   *)
(* owner value, which is none or one of the nation ids 0, 1, 2             *)
C1_OwnerValid ==
    /\ DOMAIN provinces = 0 .. 48
    /\ \A p \in 0 .. 48 : provinces[p] \in {Null, 0, 1, 2}

(* a tick in which one province changed hands by battle and one by conquest *)
C1_Witness ==
    /\ TickRan
    /\ \E p \in log.captured : p \in log.battles /\ provinces[p] \in Nation
    /\ \E p \in log.captured : p \notin log.battles /\ provinces[p] \in Nation

(* C2: in every reachable state every army in the list has size >= 100     *)
C2_SizeAtLeast100 == \A i \in 1 .. Len(armies) : armies[i].size >= 100

(* a battle just won by an army that the floor kept at 100 *)
C2_Witness ==
    /\ TickRan
    /\ \E i \in 1 .. Len(armies) :
          armies[i].location \in log.battles /\ armies[i].size = 100

(* C3: a move request from province A to a province B that is not a grid   *)
(* neighbour of A changes no army's moving flag, destination, countdown or *)
(* location                                                                *)
C3_NonAdjacentMoveRejected ==
    [][(/\ log'.op = "moveSelectedArmy"
        /\ log'.src # Null
        /\ \A k \in 1 .. Len(getNeighbors(log'.src)) :
              getNeighbors(log'.src)[k] # log'.target)
       => armies' = armies]_vars

(* C4: with the pause flag set, processTick changes neither the tick       *)
(* counter, nor an owner, an army, a treasury, the winner or game-over     *)
C4_PausedTickNoOp ==
    [][(paused /\ log'.op = "processTick")
       => /\ UNCHANGED <<tick, provinces, armies, treasury, winner, gameOver>>
          /\ UNCHANGED <<paused, nextArmyId>>]_vars

(* processTick was called on a paused game that is not over *)
C4_Witness ==
    /\ log.op = "processTick" /\ ~log.executed
    /\ paused /\ ~gameOver

(* C5: once game-over is set, every later processTick leaves the world     *)
(* unchanged, also after a resume has cleared the pause flag               *)
C5_GameOverTickNoOp ==
    [][(gameOver /\ log'.op = "processTick")
       => /\ UNCHANGED <<tick, provinces, armies, treasury, winner>>
          /\ gameOver' /\ ~log'.executed]_vars

(* processTick was called on a finished game whose pause flag was cleared *)
C5_Witness ==
    /\ log.op = "processTick"
    /\ gameOver /\ ~paused /\ winner \in Nation

(* C6: at the end of an executed tick, if some nation owns at least 37     *)
(* provinces it is the winner and gameOver and paused are set; if none     *)
(* does, gameOver is false and winner is none                              *)
C6_VictoryAtThreshold ==
    TickRan =>
        IF \E n \in Nation : Count(provinces, n) >= 37
        THEN /\ \E n \in Nation : Count(provinces, n) >= 37 /\ winner = n
             /\ gameOver /\ paused
        ELSE ~gameOver /\ winner = Null

(* a tick that brought a nation to exactly 37 provinces *)
C6_Witness ==
    /\ TickRan /\ log.captured # {}
    /\ \E n \in Nation : Count(provinces, n) = 37 /\ winner = n /\ gameOver /\ paused

(* C7: within an executed tick the relocations are done before combat      *)
(* reads locations: an army that arrives in the tick and an army of        *)
(* another nation that is at its destination then do not both outlive the  *)
(* tick, an arriving army that survives is at its destination, and an army *)
(* that after the relocations shares its province with no other nation     *)
(* fights no battle (it stays listed with its size)                        *)
WillArrive(a) == a.moving /\ a.destination # Null /\ a.movementProgress <= 1
PlaceInCombat(a) == IF WillArrive(a) THEN a.destination ELSE a.location

C7_MovementBeforeCombat ==
    [][(log'.op = "processTick" /\ log'.executed)
       => /\ \A i, j \in 1 .. Len(armies) :
                (/\ WillArrive(armies[i])
                 /\ armies[j].owner # armies[i].owner
                 /\ PlaceInCombat(armies[j]) = armies[i].destination)
                => ~({armies[i].id, armies[j].id} \subseteq Ids(armies'))
          /\ \A i \in 1 .. Len(armies) : \A k \in 1 .. Len(armies') :
                (WillArrive(armies[i]) /\ armies'[k].id = armies[i].id)
                => armies'[k].location = armies[i].destination
          /\ \A j \in 1 .. Len(armies) :
                (\A k \in 1 .. Len(armies) :
                    PlaceInCombat(armies[k]) = PlaceInCombat(armies[j])
                    => armies[k].owner = armies[j].owner)
                => \E m \in 1 .. Len(armies') :
                      armies'[m].id = armies[j].id /\ armies'[m].size = armies[j].size]_vars

(* a tick in which an arrival met a foreign army and was fought out, and in *)
(* which an army left a province where a foreign army stayed behind unhurt  *)
C7_Witness ==
    /\ TickRan
    /\ \E r \in log.arrived : r.at \in log.battles
    /\ \E r \in log.arrived : \E i \in 1 .. Len(armies) :
          /\ armies[i].location = r.from /\ armies[i].owner # r.owner
          /\ r.from # r.at /\ r.from \notin log.battles
          /\ \A q \in log.arrived : q.id # armies[i].id

C9_IncomeTwoPerProvince ==
    [][(log'.op = "processTick" /\ log'.executed)
       => \A n \in Nation :
             treasury'[n] = treasury[n] + 2 * Count(provinces', n) - 50 * Built(n)]_vars

(* an executed AI tick in which all three nations own provinces and the   *)
(* army built last is a fresh army of an AI nation                        *)
C9_Witness ==
    /\ TickRan
    /\ \A n \in Nation : Count(provinces, n) > 0
    /\ tick % 2 = 0
    /\ \E i \in 1 .. Len(armies) :
          /\ armies[i].id = nextArmyId - 1 /\ armies[i].owner # 0
          /\ armies[i].size = 1000 /\ armies[i].conquestProgress = 0

(* C10: every nation's treasury is non-negative in every reachable state *)
C10_TreasuryNonNegative == \A n \in Nation : treasury[n] >= 0

(* a construction request on an own province refused for lack of gold *)
C10_Witness ==
    /\ log.op = "buildArmyAt" /\ ~log.executed
    /\ provinces[log.target] = 0
    /\ treasury[0] < 50

(* C11: a construction request of the player at province P is accepted     *)
(* only if P is owned by nation 0 and nation 0's treasury is at least 50;  *)
(* otherwise it is a no-op: the army list, all treasuries and the next     *)
(* army id are unchanged                                                   *)
C11_BuildGuard ==
    [][log'.op = "buildArmyAt"
       => IF provinces[log'.target] = 0 /\ treasury[0] >= 50
          THEN log'.executed
          ELSE /\ ~log'.executed
               /\ UNCHANGED <<armies, treasury, nextArmyId>>
               /\ UNCHANGED <<provinces, tick, winner, gameOver, paused>>]_vars

(* a construction request on a province of another nation, or of none,    *)
(* refused although the treasury would have paid for it                   *)
C11_Witness ==
    /\ log.op = "buildArmyAt" /\ ~log.executed
    /\ provinces[log.target] # 0
    /\ treasury[0] >= 50

(* C12: construction is atomic with its cost, for the player and the AI:  *)
(* in every step each army whose id was not in the list before has an id  *)
(* handed out in this step, size 1000, morale 1.0, conquest progress 0,   *)
(* stands on a province its nation owns and has not moved (idle; an AI    *)
(* army may hold its first order, given later in the same AI cycle, with  *)
(* the full countdown); the next army id grows by the number of such      *)
(* armies, and each nation's treasury is lower by exactly 50 per army it   *)
(* gained, measured against the tick's income, and by nothing otherwise   *)
FreshArmies == {k \in 1 .. Len(armies') : armies'[k].id \notin Ids(armies)}

C12_ConstructionAtomic ==
    [][/\ \A k \in FreshArmies :
            /\ armies'[k].id >= nextArmyId /\ armies'[k].id < nextArmyId'
            /\ armies'[k].size = 1000 /\ armies'[k].morale = 10
            /\ armies'[k].conquestProgress = 0
            /\ provinces'[armies'[k].location] = armies'[k].owner
            /\ IF armies'[k].moving
               THEN armies'[k].owner # 0 /\ armies'[k].movementProgress = 3
               ELSE armies'[k].destination = Null /\ armies'[k].movementProgress = 0
            /\ \A j \in FreshArmies : armies'[j].id = armies'[k].id => j = k
       /\ nextArmyId' = nextArmyId + Cardinality(FreshArmies)
       /\ \A n \in Nation :
            treasury'[n] = treasury[n] - 50 * Built(n)
                           + (IF log'.op = "processTick" /\ log'.executed
                              THEN 2 * Count(provinces', n) ELSE 0)
       /\ log'.op = "buildArmyAt" /\ log'.executed
            => Built(0) = 1 /\ Built(1) = 0 /\ Built(2) = 0
       /\ log'.op # "buildArmyAt" => Built(0) = 0
       /\ \A n \in Nation : Built(n) <= 1]_vars

(* the player has built an army and, in a later AI cycle, an AI nation    *)
(* built one too; the player's is idle where it was built, for 50 gold    *)
C12_Witness ==
    /\ TickRan /\ tick % 2 = 0
    /\ \E i, j \in 1 .. Len(armies) :
          /\ armies[i].owner = 0 /\ armies[j].owner # 0
          /\ armies[j].id = armies[i].id + 1 /\ armies[j].id = nextArmyId - 1
          /\ armies[i].size = 1000 /\ ~armies[i].moving
          /\ provinces[armies[i].location] = 0
          /\ provinces[armies[j].location] = armies[j].owner

(* The armies as the combat stage of the coming tick finds them: an army   *)
(* fights where the movement stage leaves it, marching or not              *)
StillAfterMove(a) == ~a.moving \/ WillArrive(a)
FightersAt(p) == {i \in 1 .. Len(armies) : PlaceInCombat(armies[i]) = p}
FoughtOver(p) ==
    \E i, j \in FightersAt(p) : armies[i].owner # armies[j].owner
Survives(i) == armies[i].id \in Ids(armies')
StrengthAt(p, o) == SumStrength(armies, {i \in FightersAt(p) : armies[i].owner = o})

RECURSIVE SumSize(_, _)
SumSize(A, S) ==
    IF S = {} THEN 0
    ELSE LET i == CHOOSE j \in S : TRUE IN A[i].size + SumSize(A, S \ {i})

(* C13: for every battle of a tick there is one nation, the province's new *)
(* owner, whose armies at the location all stay in the list while every    *)
(* army of every other nation there leaves it, so the troops removed are   *)
(* the pre-battle sizes of the losing nations' armies there                *)
C13_LosersRemoved ==
    [][(log'.op = "processTick" /\ log'.executed)
       => \A p \in Province :
             FoughtOver(p)
             => /\ \E w \in Nation :
                     /\ \E i \in FightersAt(p) : armies[i].owner = w
                     /\ \A i \in FightersAt(p) : Survives(i) <=> armies[i].owner = w
                /\ SumSize(armies, {i \in FightersAt(p) : ~Survives(i)})
                     = SumSize(armies, {i \in FightersAt(p) :
                                           armies[i].owner # provinces'[p]})]_vars

(* a battle of three nations in which one losing nation lost two armies   *)
(* and another losing nation one                                          *)
C13_Witness ==
    /\ TickRan
    /\ \E p \in log.battles : \E r1, r2, r3 \in log.arrived :
          /\ r1.at = p /\ r2.at = p /\ r3.at = p
          /\ r1.id # r2.id /\ r1.owner = r2.owner
          /\ r1.owner # provinces[p] /\ r3.owner \notin {r1.owner, provinces[p]}
          /\ {r1.id, r2.id, r3.id} \cap Ids(armies) = {}
          /\ \E i \in 1 .. Len(armies) :
                armies[i].location = p /\ armies[i].owner = provinces[p]

(* C14: an army leaves the list only in an executed tick, as an army of a  *)
(* nation that lost a battle at the army's location; no request removes an *)
(* army, and an army whose location holds one nation only is never removed *)
C14_RemovedOnlyInBattle ==
    [][\A i \in 1 .. Len(armies) :
          ~Survives(i)
          => /\ log'.op = "processTick" /\ log'.executed
             /\ FoughtOver(PlaceInCombat(armies[i]))
             /\ armies[i].owner # provinces'[PlaceInCombat(armies[i])]]_vars

(* a tick with a battle that destroyed an army, in which an army of the   *)
(* destroyed army's nation that arrived elsewhere, unopposed, lives on    *)
C14_Witness ==
    /\ TickRan
    /\ \E r, q \in log.arrived :
          /\ r.at \in log.battles /\ r.id \notin Ids(armies)
          /\ q.owner = r.owner /\ q.at \notin log.battles
          /\ \E i \in 1 .. Len(armies) :
                armies[i].id = q.id /\ armies[i].location = q.at

(* C15: in a battle every army of the winner gets the size                *)
(* max(100, floor(size * (1 - rate))), rate = min(0.5, 0.3 * E / W), E the *)
(* losers' and W the winner's effective strength; two armies of size 1000 *)
(* and morale 1.0 of different nations leave one army of size 700 and     *)
(* morale 0.9, and the province with that army's nation                   *)
FloorOfKept(f, size, E, W) ==
    /\ f * 10 * W <= size * (10 * W - Min(5 * W, 3 * E))
    /\ size * (10 * W - Min(5 * W, 3 * E)) < (f + 1) * 10 * W

C15_Witness ==
    /\ TickRan
    /\ \E p \in log.battles : \E i \in 1 .. Len(armies) :
          /\ armies[i].location = p
          /\ armies[i].size = 700 /\ armies[i].morale = 9
          /\ provinces[p] = armies[i].owner
          /\ Cardinality({r \in log.arrived : r.at = p}) = 1
          /\ \A j \in 1 .. Len(armies) : armies[j].location = p => j = i

(* C16: after a battle at P the owner of P is the winning nation - the    *)
(* strongest one there, the only one with armies left there - whatever P's *)
(* owner was before, and a province that changes owner in the tick is     *)
(* either a battle site or taken by the single army standing on it        *)
C16_BattleCapture ==
    [][(log'.op = "processTick" /\ log'.executed)
       => /\ \A p \in Province :
               FoughtOver(p)
               => /\ \A i \in FightersAt(p) :
                       /\ StrengthAt(p, provinces'[p]) >= StrengthAt(p, armies[i].owner)
                       /\ Survives(i) => armies[i].owner = provinces'[p]
                  /\ \E i \in FightersAt(p) : provinces'[p] = armies[i].owner
          /\ \A q \in Province :
               (provinces'[q] # provinces[q] /\ ~FoughtOver(q))
               => \E i \in FightersAt(q) :
                     /\ StillAfterMove(armies[i]) /\ armies[i].owner = provinces'[q]
                     /\ \A j \in FightersAt(q) \ {i} : ~StillAfterMove(armies[j])]_vars

(* a tick with a battle on a province that had no owner and a battle on a *)
(* province whose owner had no army in it                                 *)
C16_Witness ==
    /\ TickRan
    /\ \E b \in log.before : b.owner = Null /\ provinces[b.at] \in Nation
    /\ \E b \in log.before :
          /\ b.owner \in Nation /\ provinces[b.at] # b.owner
          /\ \A r \in log.arrived : r.at = b.at => r.owner # b.owner
          /\ Cardinality({r.owner : r \in {x \in log.arrived : x.at = b.at}}) > 1

(* army i is, in the conquest stage of the coming tick, the only army that *)
(* stands at p, and no other nation has an army there                      *)
SoleAt(i, p) ==
    /\ PlaceInCombat(armies[i]) = p /\ StillAfterMove(armies[i])
    /\ \A j \in FightersAt(p) \ {i} :
          armies[j].owner = armies[i].owner /\ ~StillAfterMove(armies[j])

ProgressAfter(i) ==
    {armies'[k].conquestProgress : k \in {m \in 1 .. Len(armies') : armies'[m].id = armies[i].id}}

(* C17: an army that is the sole standing army at a province its nation   *)
(* does not own, with no battle there, and has conquest progress 0 leaves *)
(* the owner as it was in that tick and has progress 1 after it; if it    *)
(* still stands there alone in the next executed tick the province is its *)
(* nation's after that tick and its progress is 0 again                   *)
C17_ConquestInTwoTicks ==
    [][(log'.op = "processTick" /\ log'.executed)
       => \A i \in 1 .. Len(armies) : \A p \in Province :
             (SoleAt(i, p) /\ provinces[p] # armies[i].owner)
             => /\ armies[i].conquestProgress = 0
                   => provinces'[p] = provinces[p] /\ ProgressAfter(i) = {1}
                /\ (armies[i].conquestProgress = 1 /\ ~armies[i].moving)
                   => provinces'[p] = armies[i].owner /\ ProgressAfter(i) = {0}]_vars

(* the second tick of a run in which nobody arrived anywhere and a        *)
(* province that saw no battle went to the army standing on it: that army *)
(* arrived there, with progress 0, in the first tick                      *)
C17_Witness ==
    /\ TickRan /\ ticksLeft = MaxTicks - 2
    /\ log.arrived = {} /\ log.battles = {}
    /\ \E p \in log.captured : \E i \in 1 .. Len(armies) :
          /\ armies[i].location = p /\ armies[i].owner = provinces[p]
          /\ armies[i].conquestProgress = 0
          /\ \A j \in 1 .. Len(armies) : armies[j].location = p => j = i

(* C18: a province changes owner in the conquest stage of a tick only if  *)
(* the army that takes it stood at that province already in the conquest  *)
(* stage of the previous executed tick; an army that arrives in the tick  *)
(* does not take the province in that tick                                *)
C18_SustainedOccupation ==
    [][(log'.op = "processTick" /\ log'.executed)
       => \A p \in Province :
             (provinces'[p] # provinces[p] /\ ~FoughtOver(p))
             => \A i \in FightersAt(p) :
                   (StillAfterMove(armies[i]) /\ armies[i].owner = provinces'[p])
                   => ~WillArrive(armies[i])]_vars

(* What aiThink(n) of the tick saw, read from the state the tick leaves:  *)
(* all armies but those a nation that thinks after n built in this tick   *)
SeenBy(n) ==
    SelectSeq(armies', LAMBDA a : ~(a.id >= nextArmyId /\ a.owner > n))

(* the army was idle when its nation's aiThink ran in this tick *)
IdleForAI(a) == a.owner # 0 /\ (a.moving => a.movementProgress = 3)
OrderedByAI(a) == a.owner # 0 /\ a.moving /\ a.movementProgress = 3

NeighbourSet(p) == {getNeighbors(p)[k] : k \in 1 .. Len(getNeighbors(p))}

UnderAttack(n, q) ==
    /\ provinces'[q] = n
    /\ \E j \in 1 .. Len(SeenBy(n)) :
          SeenBy(n)[j].location = q /\ SeenBy(n)[j].owner # n

(* q is owned by another nation and the armies in it are together at     *)
(* least as strong as army a                                             *)
StronglyHeld(a, q) ==
    /\ provinces'[q] \notin {a.owner, Null}
    /\ ArmiesHere(SeenBy(a.owner), q) # {}
    /\ SumStrength(SeenBy(a.owner), ArmiesHere(SeenBy(a.owner), q)) >= a.size * a.morale

NoCapitalNear(n, q) ==
    \A c \in {0, 9, 18} : provinces'[c] \in {n, Null} \/ GridDistance(q, c) >= 10

C21_MoveOrderFrame ==
    [][log'.op = "moveSelectedArmy"
       => /\ Len(armies') = Len(armies)
          /\ \A i \in 1 .. Len(armies) :
                IF /\ log'.src # Null
                   /\ armies[i].owner = 0 /\ armies[i].location = log'.src
                   /\ ~armies[i].moving
                THEN armies'[i] = [armies[i] EXCEPT !.moving = TRUE,
                                                    !.destination = log'.target,
                                                    !.movementProgress = 3]
                ELSE armies'[i] = armies[i]
          /\ UNCHANGED <<provinces, treasury, tick, nextArmyId, winner, gameOver, paused>>]_vars

(* a request has just ordered a blue army away from a province where     *)
(* another blue army, already on the march, keeps its own destination and *)
(* countdown, while a foreign army elsewhere stands idle                  *)
C21_Witness ==
    /\ log.op = "moveSelectedArmy" /\ log.src # Null
    /\ \E i, j, k \in 1 .. Len(armies) :
          /\ armies[i].owner = 0 /\ armies[i].location = log.src
          /\ armies[i].moving /\ armies[i].movementProgress = 3
          /\ armies[i].destination = log.target
          /\ armies[j].owner = 0 /\ armies[j].location = log.src
          /\ armies[j].moving /\ armies[j].destination # log.target
          /\ armies[k].owner # 0 /\ ~armies[k].moving

----------------------------------------------------------------------------
(* C22: once init has run, and after any sequence of setSpeed calls,       *)
(* exactly one interval timer is registered with the host: it is the one   *)
(* whose handle the game stores and its period is the current speed (a     *)
(* speed change leaves neither two timers nor none); and no step, a timer  *)
(* firing included, advances the tick counter by more than one.            *)
OneTimer ==
    interval # Null => /\ DOMAIN timers = {interval}
                       /\ timers[interval] = speed

C22_SingleTimer ==
    /\ []OneTimer
    /\ [][tick' \in {tick, tick + 1}]_vars

(* a tick has run on the third timer registered, after two speed changes *)
C22_Witness ==
    /\ log.op = "processTick"
    /\ log.executed
    /\ interval = 3
    /\ speed # DefaultSpeed
    /\ DOMAIN timers = {3}

----------------------------------------------------------------------------
(* C23: in every reachable state every army's morale lies within           *)
(* [0.3, 1.2] (3 .. 12 in tenths), whatever battles it has been through.   *)
C23_MoraleBounded ==
    \A i \in 1 .. Len(armies) : armies[i].morale \in 3 .. 12

(* a tick with a battle has run and a winner of it stands at the ceiling *)
C23_Witness ==
    /\ log.executed
    /\ \E i \in 1 .. Len(armies) :
           /\ armies[i].location \in log.battles
           /\ armies[i].morale = 12

----------------------------------------------------------------------------
(* C24: the nation that wins a battle (the province's owner after it) is   *)
(* present at the location and its effective strength, the sum of size     *)
(* times morale over its armies there with the marching ones included, is  *)
(* maximal among the nations present; a nation as strong as the winner has *)
(* its first army at the location later in the army list than the winner's *)
(* first army there.  The province's previous owner plays no part.         *)
FirstAt(p, o) ==
    CHOOSE i \in FightersAt(p) :
        /\ armies[i].owner = o
        /\ \A j \in FightersAt(p) : armies[j].owner = o => i <= j

C24_StrongestWins ==
    [][(log'.op = "processTick" /\ log'.executed)
       => \A p \in Province :
             FoughtOver(p)
             => /\ \E i \in FightersAt(p) : armies[i].owner = provinces'[p]
                /\ \A i \in FightersAt(p) :
                      armies[i].owner # provinces'[p]
                      => \/ StrengthAt(p, provinces'[p]) > StrengthAt(p, armies[i].owner)
                         \/ /\ StrengthAt(p, provinces'[p]) = StrengthAt(p, armies[i].owner)
                            /\ FirstAt(p, provinces'[p]) < FirstAt(p, armies[i].owner)]_vars

(* a battle between two equally strong nations, lost by the nation that *)
(* owned the province and won by the other                              *)
C24_Witness ==
    /\ TickRan
    /\ \E f, g \in log.forces :
          /\ f.at = g.at /\ f.owner # g.owner /\ f.strength = g.strength
          /\ provinces[f.at] = f.owner
          /\ [at |-> g.at, owner |-> g.owner] \in log.before

----------------------------------------------------------------------------
(* C25: the morale of an army of the winning nation after a battle, with   *)
(* E the losers' and W the winner's effective strength (casualty rate      *)
(* min(0.5, 0.3 E / W)): lowered by 0.3 but not below 0.3 when the rate    *)
(* exceeds 0.3; lowered by 0.1 but not below 0.5 when it exceeds 0.1;      *)
(* raised by 0.1 but not above 1.2 otherwise; and whenever the rate        *)
(* exceeds 0.1 the morale after the battle is not higher than before.      *)
EnemyAt(p, o) == SumStrength(armies, {i \in FightersAt(p) : armies[i].owner # o})

C25_MoraleAdjustment ==
    [][(log'.op = "processTick" /\ log'.executed)
       => \A i \in 1 .. Len(armies) : \A k \in 1 .. Len(armies') :
             (armies'[k].id = armies[i].id /\ FoughtOver(PlaceInCombat(armies[i])))
             => LET E == EnemyAt(PlaceInCombat(armies[i]), armies[i].owner)
                    W == StrengthAt(PlaceInCombat(armies[i]), armies[i].owner)
                    m == armies[i].morale
                IN  /\ E > W => armies'[k].morale = Max(3, m - 3)
                    /\ (3 * E > W /\ E <= W) => armies'[k].morale = Max(5, m - 1)
                    /\ 3 * E <= W => armies'[k].morale = Min(12, m + 1)
                    /\ 3 * E > W => armies'[k].morale <= m]_vars

----------------------------------------------------------------------------
(* C26: the conquest stage of a tick leaves progress 0 on an army that is  *)
(* the only non-moving army at a province of its own nation and on every   *)
(* non-moving army that shares its province with another non-moving army;  *)
(* it raises the progress of an army, by one, only if the army is the only *)
(* non-moving army at a province that its nation does not own.             *)
(* The armies standing at p in the conquest stage are those not marching   *)
(* after the movement stage that survived the combat stage.                *)
StandingAt(p) ==
    {i \in FightersAt(p) : StillAfterMove(armies[i]) /\ Survives(i)}

(* the owner of p when the conquest stage begins *)
OwnerAfterCombat(p) ==
    IF FoughtOver(p)
    THEN CHOOSE o \in Nation : \E i \in FightersAt(p) : armies[i].owner = o /\ Survives(i)
    ELSE provinces[p]

C26_ProgressResets ==
    [][/\ (log'.op = "processTick" /\ log'.executed)
          => \A p \in Province : \A i \in StandingAt(p) :
                /\ (StandingAt(p) = {i} /\ OwnerAfterCombat(p) = armies[i].owner)
                   => ProgressAfter(i) = {0}
                /\ StandingAt(p) # {i} => ProgressAfter(i) = {0}
       /\ \A i \in 1 .. Len(armies) : \A c \in ProgressAfter(i) :
             c > armies[i].conquestProgress
             => /\ log'.op = "processTick" /\ log'.executed
                /\ StandingAt(PlaceInCombat(armies[i])) = {i}
                /\ OwnerAfterCombat(PlaceInCombat(armies[i])) # armies[i].owner
                /\ c = armies[i].conquestProgress + 1]_vars

(* two armies of one nation arrived in the tick at a province that is not *)
(* their nation's; both stand there with progress 0 and the province has  *)
(* kept its owner                                                         *)
C26_Witness ==
    /\ TickRan
    /\ \E r, q \in log.arrived : \E i, j \in 1 .. Len(armies) :
          /\ armies[i].id = r.id /\ armies[j].id = q.id /\ j # i
          /\ r.at = q.at /\ provinces[r.at] # r.owner /\ r.at \notin log.captured
          /\ armies[i].location = r.at /\ armies[j].location = r.at
          /\ ~armies[i].moving /\ ~armies[j].moving
          /\ armies[i].conquestProgress = 0 /\ armies[j].conquestProgress = 0

----------------------------------------------------------------------------
(* C27: when the combat stage of a tick is over every province holds the   *)
(* armies, marching or not, of one nation at most: the armies that were in *)
(* the list before the tick and are at one location after it have one      *)
(* owner (an army the AI builds later in the tick is set aside), and so    *)
(* have the armies standing at a province in the conquest stage; also when *)
(* the player had an army built next to a foreign one before the tick.     *)
C27_OneNationPerProvince ==
    [][(log'.op = "processTick" /\ log'.executed)
       => /\ \A k, m \in 1 .. Len(armies') :
                (/\ {armies'[k].id, armies'[m].id} \subseteq Ids(armies)
                 /\ armies'[k].location = armies'[m].location)
                => armies'[k].owner = armies'[m].owner
          /\ \A p \in Province : \A i, j \in StandingAt(p) :
                armies[i].owner = armies[j].owner]_vars

(* a battle at a province of the player where nobody arrived in the tick: *)
(* the army built there met the foreign army that stood on the province;  *)
(* one nation is left there                                               *)
C27_Witness ==
    /\ TickRan
    /\ \E p \in log.battles :
          /\ \A r \in log.arrived : r.at # p
          /\ [at |-> p, owner |-> 0] \in log.before
          /\ \E i \in 1 .. Len(armies) : armies[i].location = p
          /\ \A i, j \in 1 .. Len(armies) :
                (armies[i].location = p /\ armies[j].location = p)
                => armies[i].owner = armies[j].owner

----------------------------------------------------------------------------
(* C28: an executed tick lowers the countdown of every Moving army by one; *)
(* while the result is above zero the army stays Moving at its location    *)
(* with its destination, and when it reaches zero the army is at its       *)
(* destination and Idle (an AI army may be given its next order, countdown *)
(* 3, later in that same tick).  An order, the player's or the AI's, sets  *)
(* the countdown to 3, so the army arrives in the third executed tick      *)
(* after it unless combat destroys it.  No other step, a paused tick       *)
(* included, changes a Moving army, and the countdown of an army that      *)
(* stays on the same march never increases.                                *)
After(i) == {armies'[k] : k \in {m \in 1 .. Len(armies') : armies'[m].id = armies[i].id}}

C28_Countdown ==
    [][\A i \in 1 .. Len(armies) : \A b \in After(i) :
          /\ (armies[i].moving /\ log'.op = "processTick" /\ log'.executed)
             => IF armies[i].movementProgress > 1
                THEN /\ b.moving /\ b.movementProgress = armies[i].movementProgress - 1
                     /\ b.location = armies[i].location
                     /\ b.destination = armies[i].destination
                ELSE /\ b.location = armies[i].destination
                     /\ \/ ~b.moving /\ b.movementProgress = 0 /\ b.destination = Null
                        \/ /\ b.moving /\ b.movementProgress = MoveTicks
                           /\ b.owner \in {AiNations[n] : n \in 1 .. Len(AiNations)}
          /\ (armies[i].moving /\ ~(log'.op = "processTick" /\ log'.executed))
             => b = armies[i]
          /\ (~armies[i].moving /\ b.moving)
             => b.movementProgress = MoveTicks /\ b.location = armies[i].location
          /\ (armies[i].moving /\ b.moving /\ b.location = armies[i].location)
             => b.movementProgress <= armies[i].movementProgress]_vars

(* the third tick after the player ordered army 1 from province 0 to *)
(* province 1 at the start of the game: the army arrives and is Idle  *)
C28_Witness ==
    /\ TickRan /\ tick = 3
    /\ log.arrived = {[id |-> 1, owner |-> 0, from |-> 0, at |-> 1]}
    /\ \E i \in 1 .. Len(armies) :
          /\ armies[i].id = 1 /\ armies[i].location = 1
          /\ ~armies[i].moving /\ armies[i].movementProgress = 0

----------------------------------------------------------------------------
(* C29: in every reachable state every army is either Idle (moving false,  *)
(* no destination, countdown 0) or Moving (moving true, a destination that *)
(* is a province id, countdown in 1 .. 3)                                  *)
IdleState(a) == ~a.moving /\ a.destination = Null /\ a.movementProgress = 0
MovingState(a) ==
    a.moving /\ a.destination \in Province /\ a.movementProgress \in 1 .. MoveTicks

C29_MovementStateWellFormed ==
    \A i \in 1 .. Len(armies) : IdleState(armies[i]) \/ MovingState(armies[i])

(* after a tick: an army that arrived in it is Idle, another is one tick *)
(* from its destination and a third has just been given its order       *)
C29_Witness ==
    /\ TickRan
    /\ \E r \in log.arrived : \E i \in 1 .. Len(armies) :
          armies[i].id = r.id /\ IdleState(armies[i]) /\ armies[i].location = r.at
    /\ \E i \in 1 .. Len(armies) : MovingState(armies[i]) /\ armies[i].movementProgress = 1
    /\ \E i \in 1 .. Len(armies) : MovingState(armies[i]) /\ armies[i].movementProgress = 3

----------------------------------------------------------------------------
(* C30: the AI decides only in executed ticks whose index, the tick        *)
(* counter after its increment, is even: a step in which an army of an AI  *)
(* nation goes from Idle to Moving, an army of an AI nation is added or an *)
(* AI treasury goes down is an executed tick with an even index; the index *)
(* advances by one in an executed tick and in no other step, a paused tick *)
(* included.                                                               *)
AiDecided ==
    \/ \E i \in 1 .. Len(armies) : \E b \in After(i) :
          armies[i].owner # 0 /\ ~armies[i].moving /\ b.moving
    \/ \E k \in 1 .. Len(armies') :
          armies'[k].owner # 0 /\ armies'[k].id \notin Ids(armies)
    \/ \E n \in Nation \ {0} : treasury'[n] < treasury[n]

----------------------------------------------------------------------------
(* C31: an AI nation gains at most one army in a tick; it gains one only   *)
(* if its treasury, after the income of the tick, is at least 50 and it    *)
(* owns a province, the army is then a new Idle army at the lowest-indexed *)
(* province the nation owns and 50 is deducted; otherwise its treasury     *)
(* changes by the income only.  With a failed random draw aiThink builds   *)
(* nothing and charges nothing.                                            *)
FreshOf(n) == {k \in FreshArmies : armies'[k].owner = n}
OwnedBy(P, n) == {p \in Province : P[p] = n}

NoDrawNoArmy ==
    \A n \in Nation \ {0} :
        LET w == [provinces |-> provinces, armies |-> armies, treasury |-> treasury,
                  nextArmyId |-> nextArmyId]
        IN  /\ aiThink(n, FALSE, w).treasury = treasury
            /\ Len(aiThink(n, FALSE, w).armies) = Len(armies)
            /\ aiThink(n, FALSE, w).nextArmyId = nextArmyId

----------------------------------------------------------------------------
(* C32: in an AI tick an army of an AI nation that is Idle when its nation *)
(* thinks and has a neighbour that its nation owns and that holds an army  *)
(* of another nation is ordered to the first such neighbour in the order   *)
(* left, right, up, down, whatever the scores of its other neighbours;     *)
(* and an army is ordered to a province of its own nation in no other case *)
DefenceTargets(a) ==
    {j \in 1 .. Len(getNeighbors(a.location)) :
        UnderAttack(a.owner, getNeighbors(a.location)[j])}

FirstDefenceTarget(a) ==
    getNeighbors(a.location)[CHOOSE j \in DefenceTargets(a) :
                                \A m \in DefenceTargets(a) : j <= m]

C32_DefenceFirst ==
    [][(log'.op = "processTick" /\ log'.executed /\ tick' % 2 = 0)
       => \A k \in 1 .. Len(armies') :
             /\ (IdleForAI(armies'[k]) /\ DefenceTargets(armies'[k]) # {})
                => /\ OrderedByAI(armies'[k])
                   /\ armies'[k].destination = FirstDefenceTarget(armies'[k])
             /\ (/\ OrderedByAI(armies'[k])
                 /\ provinces'[armies'[k].destination] = armies'[k].owner)
                => DefenceTargets(armies'[k]) # {}]_vars

(* an AI army has been ordered to a province of its nation that holds a  *)
(* foreign army, although another neighbour, not its nation's, scores    *)
(* above the threshold                                                   *)
C32_Witness ==
    /\ TickRan /\ tick % 2 = 0
    /\ \E i \in 1 .. Len(armies) :
          /\ armies[i].owner # 0 /\ armies[i].moving /\ armies[i].movementProgress = 3
          /\ provinces[armies[i].destination] = armies[i].owner
          /\ \E j \in 1 .. Len(armies) :
                armies[j].location = armies[i].destination /\ armies[j].owner # armies[i].owner
          /\ \E q \in NeighbourSet(armies[i].location) :
                /\ provinces[q] # armies[i].owner
                /\ TargetScore(armies[i].owner, armies[i], q, provinces, armies) > ScoreThreshold

----------------------------------------------------------------------------
(* C33: in an AI tick an Idle army of an AI nation with no defence target  *)
(* is ordered, if at all, to the neighbour of maximal score among the      *)
(* neighbours its nation does not own, the first of them in the order      *)
(* left, right, up, down when several score the maximum, and it is ordered *)
(* exactly when that maximum exceeds 5.  The score is 15 for an owned and  *)
(* 10 for an unowned province, plus 20 without defenders, 10 if the army   *)
(* is more than 1.2 times as strong as the defenders, 5 if merely          *)
(* stronger, -10 otherwise, plus max(0, 10 - grid distance) for each of    *)
(* the provinces 0, 9, 18 owned by another nation.  So an undefended       *)
(* unowned neighbour is preferred to a defended enemy one that is at       *)
(* least as strong as the army.                                            *)
DefendersOf(a, q) ==
    SumStrength(SeenBy(a.owner), ArmiesHere(SeenBy(a.owner), q))

BonusFor(a, q, c) ==
    IF provinces'[c] \notin {a.owner, Null} THEN Max(0, 10 - GridDistance(q, c)) ELSE 0

ScoreOf(a, q) ==
    (IF provinces'[q] # Null THEN 15 ELSE 10)
    + (IF DefendersOf(a, q) = 0 THEN 20
       ELSE IF 10 * a.size * a.morale > 12 * DefendersOf(a, q) THEN 10
       ELSE IF a.size * a.morale > DefendersOf(a, q) THEN 5
       ELSE -10)
    + BonusFor(a, q, 0) + BonusFor(a, q, 9) + BonusFor(a, q, 18)

Candidates(a) ==
    {j \in 1 .. Len(getNeighbors(a.location)) :
        provinces'[getNeighbors(a.location)[j]] # a.owner}

BestCandidate(a, j) ==
    /\ j \in Candidates(a)
    /\ \A m \in Candidates(a) :
          \/ ScoreOf(a, getNeighbors(a.location)[j]) > ScoreOf(a, getNeighbors(a.location)[m])
          \/ /\ ScoreOf(a, getNeighbors(a.location)[j]) = ScoreOf(a, getNeighbors(a.location)[m])
             /\ j <= m

C33_BestScoreTarget ==
    [][(log'.op = "processTick" /\ log'.executed /\ tick' % 2 = 0)
       => \A k \in 1 .. Len(armies') :
             (IdleForAI(armies'[k]) /\ DefenceTargets(armies'[k]) = {})
             => /\ armies'[k].moving
                   <=> \E j \in Candidates(armies'[k]) :
                          ScoreOf(armies'[k], getNeighbors(armies'[k].location)[j]) > 5
                /\ armies'[k].moving
                   => \E j \in Candidates(armies'[k]) :
                         /\ BestCandidate(armies'[k], j)
                         /\ armies'[k].destination = getNeighbors(armies'[k].location)[j]
                /\ (/\ armies'[k].moving
                    /\ \E q \in NeighbourSet(armies'[k].location) :
                          provinces'[q] = Null /\ DefendersOf(armies'[k], q) = 0)
                   => ~StronglyHeld(armies'[k], armies'[k].destination)]_vars

(* an AI army has been ordered to an unowned neighbour without defenders  *)
(* while another neighbour is an enemy province held by an army at least  *)
(* as strong as itself                                                    *)
C33_Witness ==
    /\ TickRan /\ tick % 2 = 0
    /\ \E i \in 1 .. Len(armies) :
          /\ armies[i].owner # 0 /\ armies[i].moving /\ armies[i].movementProgress = 3
          /\ provinces[armies[i].destination] = Null
          /\ ArmiesHere(armies, armies[i].destination) = {}
          /\ \E q \in NeighbourSet(armies[i].location) :
                /\ provinces[q] \notin {armies[i].owner, Null}
                /\ ArmiesHere(armies, q) # {}
                /\ SumStrength(armies, ArmiesHere(armies, q))
                      >= armies[i].size * armies[i].morale

----------------------------------------------------------------------------
(* C34: in every step each nation's treasury changes by the income of the  *)
(* step, 2 per province the nation owns after an executed tick and nothing *)
(* in any other step, less 50 for each army that nation itself gained in   *)
(* the step; the player gains armies only by a construction request, an AI *)
(* nation only in an executed tick.  Movement, combat, conquest, victory   *)
(* evaluation, move requests and the constructions of other nations leave  *)
(* a treasury alone.                                                       *)
GainedBy(n) == Cardinality({k \in FreshArmies : armies'[k].owner = n})

C34_TreasuryFrame ==
    [][\A n \in Nation :
          /\ treasury'[n] - treasury[n]
                = (IF log'.op = "processTick" /\ log'.executed
                   THEN IncomeRate * Count(provinces', n) ELSE 0)
                  - ArmyCost * GainedBy(n)
          /\ GainedBy(n) > 0
             => IF n = 0 THEN log'.op = "buildArmyAt" /\ log'.executed
                ELSE log'.op = "processTick" /\ log'.executed]_vars

(* the player has spent the gold on an army after at least one tick; *)
(* both AI nations hold enough gold for an army of their own         *)
C34_Witness ==
    /\ log.op = "buildArmyAt" /\ log.executed
    /\ ticksLeft < MaxTicks
    /\ treasury[0] < ArmyCost
    /\ treasury[1] >= ArmyCost /\ treasury[2] >= ArmyCost
    /\ \E i \in 1 .. Len(armies) :
          armies[i].id = nextArmyId - 1 /\ armies[i].owner = 0
          /\ armies[i].location = log.target

----------------------------------------------------------------------------
(* C35: a province changes owner only in an executed tick, and then either *)
(* to the winner of the battle fought at it or, without a battle, to the   *)
(* nation of the only army standing (not marching) on it; requests and     *)
(* paused ticks change no owner, and a province on which no army is        *)
(* located during the tick keeps its owner.                                *)
C35_OwnershipFrame ==
    [][\A p \in Province :
          /\ provinces'[p] # provinces[p]
             => /\ log'.op = "processTick" /\ log'.executed
                /\ IF FoughtOver(p)
                   THEN \E i \in FightersAt(p) :
                           Survives(i) /\ armies[i].owner = provinces'[p]
                   ELSE \E i \in FightersAt(p) :
                           StandingAt(p) = {i} /\ armies[i].owner = provinces'[p]
          /\ FightersAt(p) = {} => provinces'[p] = provinces[p]]_vars

(* a tick in which a province went to the army standing on it, while an *)
(* army on the march through a foreign province left that province to   *)
(* its owner                                                            *)
C35_Witness ==
    /\ TickRan
    /\ log.captured \ log.battles # {}
    /\ \E i \in 1 .. Len(armies) :
          /\ armies[i].moving /\ armies[i].movementProgress < MoveTicks
          /\ provinces[armies[i].location] \notin {armies[i].owner, Null}

----------------------------------------------------------------------------
(* C36: a province that has an owner has an owner after every step, so the *)
(* number of unowned provinces never grows; the three capitals 0, 9 and 18 *)
(* that init hands out are owned by some nation in every reachable state.  *)
CapitalsOwned == \A c \in {0, 9, 18} : provinces[c] # Null

C36_NeverUnowned ==
    /\ []CapitalsOwned
    /\ [][/\ \A p \in Province : provinces[p] # Null => provinces'[p] # Null
          /\ Count(provinces', Null) <= Count(provinces, Null)]_vars

(* a tick has taken a province from one nation and given it to another, *)
(* once by battle and once by conquest                                  *)
C36_Witness ==
    /\ TickRan
    /\ \E b \in log.before :
          b.owner # Null /\ b.at \in log.captured /\ provinces[b.at] \notin {Null, b.owner}
    /\ log.captured \ log.battles # {}

----------------------------------------------------------------------------
(* C37: in a battle of exactly two nations the casualty rate min(0.5,      *)
(* 0.3 E / W) is at most 0.3, i.e. E <= W for the surviving nation, and its *)
(* armies leave by the moderate or the light morale branch; a survivor that *)
(* took the heavy branch (E > W) fought a battle of three nations; and an   *)
(* army of the winner of a two-nation battle keeps at least                 *)
(* max(100, floor(0.7 * size)) troops.                                      *)
NationsAt(p) == {armies[i].owner : i \in FightersAt(p)}

TwoNationRate ==
    [][(log'.op = "processTick" /\ log'.executed)
       => \A i \in 1 .. Len(armies) : \A b \in After(i) :
             FoughtOver(PlaceInCombat(armies[i]))
             => LET p == PlaceInCombat(armies[i])
                    E == EnemyAt(p, armies[i].owner)
                    W == StrengthAt(p, armies[i].owner)
                    m == armies[i].morale
                IN  /\ Cardinality(NationsAt(p)) = 2
                       => /\ E <= W
                          /\ b.morale \in {Max(5, m - 1), Min(12, m + 1)}
                    /\ (E > W \/ b.morale = Max(3, m - 3))
                       => Cardinality(NationsAt(p)) = 3]_vars

TwoNationKept ==
    [][(log'.op = "processTick" /\ log'.executed)
       => \A i \in 1 .. Len(armies) : \A b \in After(i) :
             (/\ FoughtOver(PlaceInCombat(armies[i]))
              /\ Cardinality(NationsAt(PlaceInCombat(armies[i]))) = 2)
             => b.size >= Max(100, (7 * armies[i].size) \div 10)]_vars

----------------------------------------------------------------------------
(* C38: between ticks every army's conquest progress is 0 or 1: the        *)
(* conquest stage hands the province over and resets the counter in the    *)
(* step in which the counter reaches 2.                                    *)
C38_ProgressBelowThreshold ==
    \A i \in 1 .. Len(armies) : armies[i].conquestProgress \in 0 .. (ConquestTicks - 1)

(* a tick in which one army completed a conquest and is back at 0 on the *)
(* province it took, while another army is at 1                          *)
C38_Witness ==
    /\ TickRan
    /\ \E i, j \in 1 .. Len(armies) :
          /\ armies[i].location \in log.captured \ log.battles
          /\ ~armies[i].moving /\ armies[i].conquestProgress = 0
          /\ armies[j].conquestProgress = 1

----------------------------------------------------------------------------
(* C39: gameOver is set exactly when winner is a nation, and then the      *)
(* winner owns at least 37 provinces; the step that sets gameOver sets     *)
(* paused; and once gameOver is set no step - tick, resume, speed change,  *)
(* move request, construction request - changes winner, gameOver, the tick *)
(* counter or a province owner.                                            *)
GameOverMeansWinner ==
    /\ winner \in Nation \cup {Null}
    /\ gameOver <=> winner \in Nation
    /\ gameOver => Count(provinces, winner) >= VictoryCount

C39_GameOverFinal ==
    /\ []GameOverMeansWinner
    /\ [][/\ (~gameOver /\ gameOver') => paused'
          /\ gameOver => UNCHANGED <<winner, gameOver, tick, provinces>>]_vars

(* processTick was called on a game blue has won, after the player resumed *)
(* it and changed the speed                                               *)
C39_Witness ==
    /\ gameOver /\ winner = 0 /\ ~paused
    /\ speed # DefaultSpeed
    /\ log.op = "processTick" /\ ~log.executed

----------------------------------------------------------------------------
(* C40: the combat stage and the conquest stage give the same army list and *)
(* the same province owners whatever the order in which the provinces are   *)
(* taken: every order of the tick's battle sites gives what processCombat   *)
(* gives, every order of the occupied provinces gives what processConquest  *)
(* gives, and that is what the tick leaves (the owners in every tick, the   *)
(* armies in the ticks without an AI turn).                                 *)
RECURSIVE CombatAnyOrder(_, _, _)
CombatAnyOrder(sites, P, A) ==
    IF sites = {} THEN {[provinces |-> P, armies |-> A]}
    ELSE UNION {CombatAnyOrder(sites \ {p}, CaptureByBattle(P, p, BattleWinner(A, p)),
                               ResolveBattle(A, p)) : p \in sites}

RECURSIVE ConquestAnyOrder(_, _, _)
ConquestAnyOrder(held, P, A) ==
    IF held = {} THEN {[provinces |-> P, armies |-> A]}
    ELSE UNION {ConquestAnyOrder(held \ {p}, ConquestAt(p, P, A).provinces,
                                 ConquestAt(p, P, A).armies) : p \in held}

C40_OrderInsensitive ==
    [][(log'.op = "processTick" /\ log'.executed)
       => \A moved \in {processMovement(armies)} :
          \A fought \in {processCombat(provinces, moved)} :
          \A held \in {processConquest(fought.provinces, fought.armies)} :
             /\ CombatAnyOrder(BattleSites(moved), provinces, moved) = {fought}
             /\ ConquestAnyOrder({p \in Province : Occupants(fought.armies, p) # {}},
                                 fought.provinces, fought.armies) = {held}
             /\ provinces' = held.provinces
             /\ ~AiTurn(tick') => armies' = held.armies]_vars

(* a tick with battles at two provinces that also completed a conquest at *)
(* a third and left an army one tick into a conquest                      *)
C40_Witness ==
    /\ TickRan
    /\ Cardinality(log.battles) >= 2
    /\ log.captured \ log.battles # {}
    /\ \E i \in 1 .. Len(armies) :
          ~armies[i].moving /\ armies[i].conquestProgress = 1

====
